---- MODULE Spec2Model ----
(***************************************************************************)
(* Model of the fire-detection backend (src/app.py): model loading at      *)
(* start-up, the sensor-data ingestion handler with its classifier, the    *)
(* manual-predict handler and the latest/stats queries over the            *)
(* sensor_readings table.                                                  *)
(***************************************************************************)
EXTENDS Integers, Sequences, FiniteSets, TLC

\* ---------------------------------------------------------------- bounds
MaxRequests == 2      \* ingestion requests accepted in one run
MaxClock    == 3      \* last clock tick of a run
MaxLoads    == 2      \* load_model invocations in one run (reload runs)
MaxEnc      == 1      \* largest class index an opaque predictor returns
Workers     == {1, 2} \* request-handling threads

VARIABLES
    main,        \* position of the entry point (__main__)
    loader,      \* frame of the running load_model call
    predictor,   \* module global predictor
    scaler,      \* module global scaler
    label_enc,   \* module global label_enc
    model_meta,  \* module global model_meta
    readings,    \* table sensor_readings, in insertion order
    clock,       \* datetime.utcnow(), in ticks
    req,         \* per worker: frame of the request it is handling
    started,     \* requests accepted so far, and how many had a valid payload
    latest,      \* frame of the last /api/latest call
    stats        \* frame of the last /api/stats call

vars == <<main, loader, predictor, scaler, label_enc, model_meta,
          readings, clock, req, started, latest, stats>>

\* ------------------------------------------------------- module globals
\* A global holds None (or {} for model_meta) until a load_model call binds
\* it; `load` is the number of the load_model call that bound it.
None      == [kind |-> "None", load |-> 0]
EmptyMeta == [kind |-> "empty", use_scaled |-> FALSE, named |-> FALSE, load |-> 0]

\* what joblib.load can hand back for fire_risk_model.pkl: a working
\* classifier, an object whose predict raises, one without predict_proba
PredictorKinds == {"ok", "broken", "noproba"}
\* ... for scaler.pkl
ScalerKinds == {"ok", "broken"}
\* ... for label_encoder.pkl: the classes_ of the fitted LabelEncoder
ClassLists == { <<"HIGH", "LOW", "MEDIUM">>, <<"LOW", "SEVERE">> }

\* ------------------------------------------------------ request frames
Fields == {"device_id", "temperature", "smoke", "gas"}
FieldOrder == <<"device_id", "temperature", "smoke", "gas">>

IdleReq == [pc |-> "idle", route |-> "", data |-> <<>>, temp |-> 0, smoke |-> 0,
            gas |-> 0, enc_code |-> 0, label |-> "", code |-> 0,
            proba |-> "None", ts |-> <<>>, rowid |-> 0, status |-> 0,
            error |-> "", body |-> "", loadsRead |-> {}]

NoLatest == [called |-> FALSE, args |-> <<>>, status |-> 0, rows |-> <<>>]

NoSnap == [total_readings |-> -1]
NoStats == [pc |-> "idle", total |-> 0, high |-> 0, medium |-> 0, low |-> 0,
            cutoff |-> <<>>, mark |-> 0, resp |-> NoSnap,
            prev |-> NoSnap, prevCutoff |-> <<>>, prevMark |-> 0]

\* ------------------------------------------------------------ requests
\* JSON values are modelled by their text; NumText is the value float()/int()
\* give for the texts that denote numbers, every other text makes them raise
\* ValueError.
NumText == [t \in {"-1", "1", "2", "0", "10", "30", "44", "45", "59", "60", "65", "100", "150", "299",
                   "300", "399", "400", "499", "500", "600", "699", "700"} |->
              CASE t = "-1" -> -1 [] t = "1" -> 1 [] t = "2" -> 2 [] t = "0" -> 0 [] t = "10" -> 10 [] t = "30" -> 30 [] t = "44" -> 44
                [] t = "45" -> 45 [] t = "59" -> 59 [] t = "60" -> 60 [] t = "65" -> 65
                [] t = "100" -> 100 [] t = "150" -> 150 [] t = "299" -> 299
                [] t = "300" -> 300 [] t = "399" -> 399 [] t = "400" -> 400
                [] t = "499" -> 499 [] t = "500" -> 500 [] t = "600" -> 600
                [] t = "699" -> 699 [] t = "700" -> 700]

IsNumeric(v) == v \in DOMAIN NumText
py_float(v) == NumText[v]
py_int(v) == NumText[v]

\* data.get(key, default)
dict_get(data, key, default) == IF key \in DOMAIN data THEN data[key] ELSE default

\* a payload without one of its keys
Without(data, key) == [k \in (DOMAIN data) \ {key} |-> data[k]]
EmptyBody == [k \in {} |-> ""]

\* payloads of the ingestion runs: the rule examples of the three levels,
\* one payload per missing field, one per non-numeric field, the empty body
BasePayload == [device_id |-> "A", temperature |-> "10", smoke |-> "0", gas |-> "0"]
ValidPayloads == { BasePayload,
                   [BasePayload EXCEPT !.temperature = "60"],
                   [BasePayload EXCEPT !.temperature = "65", !.smoke = "600"] }
Payloads == ValidPayloads
            \cup { Without(BasePayload, f) : f \in Fields }
            \cup { [BasePayload EXCEPT ![f] = "abc"] : f \in Fields \ {"device_id"} }
            \cup { EmptyBody }

\* datetime.isoformat(): the text of an instant; the fraction is left out
\* when it is zero. Texts are sequences, compared as SQLite compares TEXT.
Frac == 2
\* timedelta(hours=24) in ticks (time is scaled)
Day == 1
isoformat(t) == IF t % Frac = 0 THEN <<t \div Frac>> ELSE <<t \div Frac, t % Frac>>

RECURSIVE TextLeq(_, _)
TextLeq(a, b) ==
    IF a = <<>> THEN TRUE
    ELSE IF b = <<>> THEN FALSE
    ELSE IF Head(a) # Head(b) THEN Head(a) < Head(b)
    ELSE TextLeq(Tail(a), Tail(b))

\* rule_predict with the upper temperature threshold taken strictly
rule_predict_strict(temperature, smoke, gas) ==
    LET s1 == IF temperature > 60 THEN 2 ELSE IF temperature >= 45 THEN 1 ELSE 0
        s2 == s1 + (IF smoke >= 500 THEN 2 ELSE IF smoke >= 300 THEN 1 ELSE 0)
        score == s2 + (IF gas >= 700 THEN 2 ELSE IF gas >= 400 THEN 1 ELSE 0)
    IN  IF score <= 1 THEN [label |-> "LOW", code |-> 0, proba |-> "None"]
        ELSE IF score <= 3 THEN [label |-> "MEDIUM", code |-> 1, proba |-> "None"]
        ELSE [label |-> "HIGH", code |-> 2, proba |-> "None"]

\* src/app.py:101-112
rule_predict(temperature, smoke, gas) ==
    LET s1 == IF temperature >= 60 THEN 2 ELSE IF temperature >= 45 THEN 1 ELSE 0
        s2 == s1 + (IF smoke >= 500 THEN 2 ELSE IF smoke >= 300 THEN 1 ELSE 0)
        score == s2 + (IF gas >= 700 THEN 2 ELSE IF gas >= 400 THEN 1 ELSE 0)
    IN  IF score <= 1 THEN [label |-> "LOW", code |-> 0, proba |-> "None"]
        ELSE IF score <= 3 THEN [label |-> "MEDIUM", code |-> 1, proba |-> "None"]
        ELSE [label |-> "HIGH", code |-> 2, proba |-> "None"]

\* line 122-123: RISK_CODES.get(label, 0)
RISK_CODES == [l \in {"LOW", "MEDIUM", "HIGH"} |->
                 CASE l = "LOW" -> 0 [] l = "MEDIUM" -> 1 [] l = "HIGH" -> 2]
risk_code_of(label) == IF label \in DOMAIN RISK_CODES THEN RISK_CODES[label] ELSE 0

\* section 4.2 of the specification: all four fields present, the three
\* measurements numeric
ValidPayload(data) ==
    /\ DOMAIN data = Fields
    /\ \A f \in Fields \ {"device_id"} : IsNumeric(data[f])

\* where ml_predict returns to
AfterPredict(route) == IF route = "sensor-data" THEN "l145" ELSE "l226"

\* lines 133-142 of receive_sensor_data: body, required fields, coercion
receive_sensor_data_133(w, data) ==
    /\ main.pc = "run"
    /\ req[w].pc \in {"idle", "done"}
    /\ started.all < MaxRequests
    /\ started' = [all |-> started.all + 1,
                   valid |-> started.valid + (IF ValidPayload(data) THEN 1 ELSE 0)]
    /\ LET fr == [IdleReq EXCEPT !.route = "sensor-data", !.data = data]
           absent == { i \in 1..Len(FieldOrder) : FieldOrder[i] \notin DOMAIN data }
           first == FieldOrder[CHOOSE i \in absent : \A j \in absent : i <= j]
       IN  req' = [req EXCEPT ![w] =
             IF DOMAIN data = {}
             THEN [fr EXCEPT !.pc = "done", !.status = 400, !.error = "No JSON body"]
             ELSE IF absent # {}
             THEN [fr EXCEPT !.pc = "done", !.status = 400, !.error = "Missing field",
                             !.body = first]
             ELSE IF ~IsNumeric(data.temperature)
                     \/ ~IsNumeric(data.smoke) \/ ~IsNumeric(data.gas)
             THEN [fr EXCEPT !.pc = "done", !.status = 500, !.error = "ValueError"]
             ELSE [fr EXCEPT !.pc = "l115", !.temp = py_float(data.temperature),
                             !.smoke = py_int(data.smoke), !.gas = py_int(data.gas)]]
    /\ UNCHANGED <<main, loader, predictor, scaler, label_enc, model_meta, readings,
                   clock, latest, stats>>

\* lines 115-116 of ml_predict: no predictor -> rule_predict
ml_predict_115(w) ==
    /\ req[w].pc = "l115"
    /\ LET fr == [req[w] EXCEPT !.loadsRead = @ \cup {predictor.load}]
           r == rule_predict(fr.temp, fr.smoke, fr.gas)
       IN  req' = [req EXCEPT ![w] =
             IF predictor = None
             THEN [fr EXCEPT !.pc = AfterPredict(fr.route), !.label = r.label,
                             !.code = r.code, !.proba = r.proba]
             ELSE [fr EXCEPT !.pc = "l118"]]
    /\ UNCHANGED <<main, loader, predictor, scaler, label_enc, model_meta, readings,
                   clock, started, latest, stats>>

\* lines 117-118: feature vector, scaled when the metadata says so
ml_predict_118(w) ==
    /\ req[w].pc = "l118"
    /\ LET rd == {model_meta.load} \cup (IF model_meta.use_scaled THEN {scaler.load} ELSE {})
           fr == [req[w] EXCEPT !.loadsRead = @ \cup rd]
       IN  req' = [req EXCEPT ![w] =
             IF model_meta.use_scaled /\ scaler = None
             THEN [fr EXCEPT !.pc = "done", !.status = 500, !.error = "AttributeError"]
             ELSE IF model_meta.use_scaled /\ scaler.kind = "broken"
             THEN [fr EXCEPT !.pc = "done", !.status = 500, !.error = "ValueError"]
             ELSE [fr EXCEPT !.pc = "l119"]]
    /\ UNCHANGED <<main, loader, predictor, scaler, label_enc, model_meta, readings,
                   clock, started, latest, stats>>

\* lines 119-120: predictor.predict and predictor.predict_proba; the class
\* index is the opaque model's choice
ml_predict_119(w) ==
    /\ req[w].pc = "l119"
    /\ LET fr == [req[w] EXCEPT !.loadsRead = @ \cup {predictor.load}]
       IN  \/ /\ predictor.kind = "broken"
              /\ req' = [req EXCEPT ![w] =
                   [fr EXCEPT !.pc = "done", !.status = 500, !.error = "ValueError"]]
           \/ /\ predictor.kind = "noproba"
              /\ req' = [req EXCEPT ![w] =
                   [fr EXCEPT !.pc = "done", !.status = 500, !.error = "AttributeError"]]
           \/ /\ predictor.kind = "ok"
              /\ \E c \in 0..MaxEnc :
                   req' = [req EXCEPT ![w] =
                     [fr EXCEPT !.pc = "l121", !.enc_code = c, !.proba = "list"]]
    /\ UNCHANGED <<main, loader, predictor, scaler, label_enc, model_meta, readings,
                   clock, started, latest, stats>>

\* lines 121-124: decode the class index, look the label up in RISK_CODES
ml_predict_121(w) ==
    /\ req[w].pc = "l121"
    /\ LET fr == [req[w] EXCEPT !.loadsRead = @ \cup {label_enc.load}]
       IN  req' = [req EXCEPT ![w] =
             IF label_enc = None
             THEN [fr EXCEPT !.pc = "done", !.status = 500, !.error = "AttributeError"]
             ELSE IF fr.enc_code + 1 > Len(label_enc.classes)
             THEN [fr EXCEPT !.pc = "done", !.status = 500, !.error = "ValueError"]
             ELSE LET label == label_enc.classes[fr.enc_code + 1]
                  IN  [fr EXCEPT !.pc = AfterPredict(fr.route), !.label = label,
                                 !.code = risk_code_of(label)]]
    /\ UNCHANGED <<main, loader, predictor, scaler, label_enc, model_meta, readings,
                   clock, started, latest, stats>>

\* line 145: ts = datetime.utcnow().isoformat(); the clock has moved on by
\* any amount since it was last read
receive_sensor_data_145(w) ==
    /\ req[w].pc = "l145"
    /\ \E now \in clock..MaxClock :
         /\ clock' = now
         /\ req' = [req EXCEPT ![w].pc = "l147", ![w].ts = isoformat(now)]
    /\ UNCHANGED <<main, loader, predictor, scaler, label_enc, model_meta, readings,
                   started, latest, stats>>

\* the row INSERT binds; id is AUTOINCREMENT (lines 55-64)
NewRow(fr, id) ==
    [id |-> id, device_id |-> fr.data.device_id, timestamp |-> fr.ts,
     temperature |-> fr.temp, smoke |-> fr.smoke, gas |-> fr.gas,
     risk_level |-> fr.label, risk_code |-> fr.code]

\* lines 147-153: INSERT and commit
receive_sensor_data_147(w) ==
    /\ req[w].pc = "l147"
    /\ LET id == Len(readings) + 1
       IN  /\ readings' = Append(readings, NewRow(req[w], id))
           /\ req' = [req EXCEPT ![w].pc = "l155", ![w].rowid = id]
    /\ UNCHANGED <<main, loader, predictor, scaler, label_enc, model_meta, clock,
                   started, latest, stats>>

\* lines 155-161: the success response, with probabilities when there are
\* any and a label encoder is bound
receive_sensor_data_155(w) ==
    /\ req[w].pc = "l155"
    /\ LET fr == IF req[w].proba # "None"
                 THEN [req[w] EXCEPT !.loadsRead = @ \cup {label_enc.load}]
                 ELSE req[w]
       IN  req' = [req EXCEPT ![w] =
             [fr EXCEPT !.pc = "done", !.status = 200, !.temp = 0, !.smoke = 0,
                        !.gas = 0, !.enc_code = 0, !.ts = <<>>,
                        !.body = IF fr.proba # "None" /\ label_enc # None
                                 THEN "probabilities" ELSE ""]]
    /\ UNCHANGED <<main, loader, predictor, scaler, label_enc, model_meta, readings,
                   clock, started, latest, stats>>


\* ---------------------------------------------------------- /api/predict
\* lines 221-224 of manual_predict: the measurements, with their defaults
manual_predict_221(w, data) ==
    /\ main.pc = "run"
    /\ req[w].pc \in {"idle", "done"}
    /\ started.all < MaxRequests
    /\ started' = [started EXCEPT !.all = @ + 1]
    /\ LET fr == [IdleReq EXCEPT !.route = "predict", !.data = data]
           bad(key) == key \in DOMAIN data /\ ~IsNumeric(data[key])
       IN  req' = [req EXCEPT ![w] =
             IF bad("temperature") \/ bad("smoke") \/ bad("gas")
             THEN [fr EXCEPT !.pc = "done", !.status = 500, !.error = "ValueError"]
             ELSE [fr EXCEPT !.pc = "l115",
                     !.temp = IF "temperature" \in DOMAIN data
                              THEN py_float(data.temperature) ELSE 30,
                     !.smoke = IF "smoke" \in DOMAIN data THEN py_int(data.smoke) ELSE 100,
                     !.gas = IF "gas" \in DOMAIN data THEN py_int(data.gas) ELSE 150]]
    /\ UNCHANGED <<main, loader, predictor, scaler, label_enc, model_meta, readings,
                   clock, latest, stats>>

\* lines 226-229: the response, nothing is stored
manual_predict_226(w) ==
    /\ req[w].pc = "l226"
    /\ LET fr == IF req[w].proba # "None"
                 THEN [req[w] EXCEPT !.loadsRead = @ \cup {label_enc.load}]
                 ELSE req[w]
       IN  req' = [req EXCEPT ![w] =
             [fr EXCEPT !.pc = "done", !.status = 200,
                        !.body = IF fr.proba # "None" /\ label_enc # None
                                 THEN "probabilities" ELSE ""]]
    /\ UNCHANGED <<main, loader, predictor, scaler, label_enc, model_meta, readings,
                   clock, started, latest, stats>>

\* ----------------------------------------------------------- /api/latest
\* WHERE device_id = ?
where_device(rows, device) == SelectSeq(rows, LAMBDA r : r.device_id = device)

\* ORDER BY id DESC
RECURSIVE order_by_id_desc(_)
order_by_id_desc(rows) ==
    IF rows = <<>> THEN <<>>
    ELSE LET top == CHOOSE i \in 1..Len(rows) : \A j \in 1..Len(rows) : rows[j].id <= rows[i].id
         IN  <<rows[top]>> \o order_by_id_desc(SelectSeq(rows, LAMBDA r : r.id # rows[top].id))

\* LIMIT ?: SQLite takes a negative LIMIT as no limit
sql_limit(rows, n) ==
    IF n < 0 \/ n >= Len(rows) THEN rows ELSE SubSeq(rows, 1, n)

\* lines 165-177
get_latest(args) ==
    /\ main.pc = "run"
    /\ LET device == dict_get(args, "device_id", "")
           limited == "limit" \in DOMAIN args
       IN  latest' =
             IF limited /\ ~IsNumeric(args.limit)
             THEN [called |-> TRUE, args |-> args, status |-> 500, rows |-> <<>>]
             ELSE LET limit == IF limited THEN py_int(args.limit) ELSE 50
                      rows == IF device # ""
                              THEN sql_limit(order_by_id_desc(where_device(readings, device)), limit)
                              ELSE sql_limit(order_by_id_desc(readings), limit)
                  IN  [called |-> TRUE, args |-> args, status |-> 200, rows |-> rows]
    /\ UNCHANGED <<main, loader, predictor, scaler, label_enc, model_meta, readings,
                   clock, req, started, stats>>

\* ------------------------------------------------------------ /api/stats
\* SELECT COUNT(*) ... WHERE risk_level = ?
count_level(rows, level) == Len(SelectSeq(rows, LAMBDA r : r.risk_level = level))

\* the total counted over the trailing day instead of the whole table
count_all_windowed(rows) ==
    Len(SelectSeq(rows, LAMBDA r : TextLeq(isoformat(clock - Day), r.timestamp)))

\* line 182: SELECT COUNT(*) FROM sensor_readings
count_all(rows) == Len(rows)

\* appends and model loads so far
WriteCount == Len(readings) + loader.load

\* line 182
get_stats_182 ==
    /\ main.pc = "run"
    /\ stats.pc \in {"idle", "done"}
    /\ stats' = [NoStats EXCEPT !.pc = "l183", !.total = count_all(readings),
                                !.mark = WriteCount, !.prev = stats.resp,
                                !.prevCutoff = stats.cutoff, !.prevMark = stats.mark]
    /\ UNCHANGED <<main, loader, predictor, scaler, label_enc, model_meta, readings,
                   clock, req, started, latest>>

\* line 183
get_stats_183 ==
    /\ stats.pc = "l183"
    /\ stats' = [stats EXCEPT !.pc = "l184", !.high = count_level(readings, "HIGH")]
    /\ UNCHANGED <<main, loader, predictor, scaler, label_enc, model_meta, readings,
                   clock, req, started, latest>>

\* line 184
get_stats_184 ==
    /\ stats.pc = "l184"
    /\ stats' = [stats EXCEPT !.pc = "l185", !.medium = count_level(readings, "MEDIUM")]
    /\ UNCHANGED <<main, loader, predictor, scaler, label_enc, model_meta, readings,
                   clock, req, started, latest>>

\* line 185
get_stats_185 ==
    /\ stats.pc = "l185"
    /\ stats' = [stats EXCEPT !.pc = "l187", !.low = count_level(readings, "LOW")]
    /\ UNCHANGED <<main, loader, predictor, scaler, label_enc, model_meta, readings,
                   clock, req, started, latest>>

RECURSIVE SumOf(_, _)
SumOf(rows, col) == IF rows = <<>> THEN 0 ELSE Head(rows)[col] + SumOf(Tail(rows), col)

MaxTemp(rows) ==
    LET i == CHOOSE i \in 1..Len(rows) :
               \A j \in 1..Len(rows) : rows[j].temperature <= rows[i].temperature
    IN  rows[i].temperature

\* round(total / n, 2), in hundredths (a tie, which Python resolves on the
\* binary float, needs a window of at least eight integer readings)
Round2(total, n) == (200 * total + n) \div (2 * n)

\* lines 188-190: the readings with timestamp >= cutoff, compared as TEXT
recent_rows(rows, cutoff) == SelectSeq(rows, LAMBDA r : TextLeq(cutoff, r.timestamp))

\* lines 192-211: the snapshot
snapshot(fr, recent) ==
    [total_readings |-> fr.total,
     risk_distribution |-> [LOW |-> fr.low, MEDIUM |-> fr.medium, HIGH |-> fr.high],
     last_24h |-> IF recent # <<>>
                  THEN [count |-> Len(recent),
                        avg_temp |-> Round2(SumOf(recent, "temperature"), Len(recent)),
                        avg_smoke |-> Round2(SumOf(recent, "smoke"), Len(recent)),
                        avg_gas |-> Round2(SumOf(recent, "gas"), Len(recent)),
                        max_temp |-> 100 * MaxTemp(recent)]
                  ELSE [count |-> 0, avg_temp |-> 0, avg_smoke |-> 0, avg_gas |-> 0,
                        max_temp |-> 0],
     model |-> IF model_meta # EmptyMeta THEN model_meta ELSE [kind |-> "rule-based"]]

\* lines 187-211
get_stats_187 ==
    /\ stats.pc = "l187"
    /\ \E now \in clock..MaxClock :
         LET cutoff == isoformat(now - Day)
         IN  /\ clock' = now
             /\ stats' = [stats EXCEPT !.pc = "done", !.cutoff = cutoff,
                            !.resp = snapshot(stats, recent_rows(readings, cutoff))]
    /\ UNCHANGED <<main, loader, predictor, scaler, label_enc, model_meta, readings,
                   req, started, latest>>

\* --------------------------------------------------------------- reload
\* a load_model() call while the server is serving (a reload trigger)
reload_model ==
    /\ main.pc = "run"
    /\ loader.pc \in {"returned", "raised"}
    /\ loader.load < MaxLoads
    /\ loader' = [pc |-> "l91", load |-> loader.load + 1, exc |-> ""]
    /\ UNCHANGED <<main, predictor, scaler, label_enc, model_meta, readings, clock,
                   req, started, latest, stats>>

\* -------------------------------------------------------------- start-up
\* src/app.py:52-67: creates the empty table (CREATE TABLE IF NOT EXISTS on a
\* fresh database file)
init_db ==
    /\ main.pc = "init_db"
    /\ readings' = <<>>
    /\ main' = [main EXCEPT !.pc = "load_model"]
    /\ UNCHANGED <<loader, predictor, scaler, label_enc, model_meta, clock, req,
                   started, latest, stats>>

\* __main__ calls load_model() (line 234)
main_load_model ==
    /\ main.pc = "load_model"
    /\ loader.pc = "idle"
    /\ loader' = [pc |-> "l91", load |-> loader.load + 1, exc |-> ""]
    /\ main' = [main EXCEPT !.pc = "loading"]
    /\ UNCHANGED <<predictor, scaler, label_enc, model_meta, readings, clock, req,
                   started, latest, stats>>

\* lines 90-93: model_meta.json absent -> warning, return
load_model_91 ==
    /\ loader.pc = "l91"
    /\ \E exists \in BOOLEAN :
         loader' = [loader EXCEPT !.pc = IF exists THEN "l94" ELSE "returned"]
    /\ UNCHANGED <<main, predictor, scaler, label_enc, model_meta, readings, clock,
                   req, started, latest, stats>>

\* lines 94-95: model_meta = json.load(f); a malformed file raises
load_model_94 ==
    /\ loader.pc = "l94"
    /\ \/ /\ loader' = [loader EXCEPT !.pc = "raised", !.exc = "JSONDecodeError"]
          /\ UNCHANGED model_meta
       \/ \E us \in BOOLEAN, nm \in BOOLEAN :
            /\ model_meta' = [kind |-> "dict", use_scaled |-> us, named |-> nm,
                              load |-> loader.load]
            /\ loader' = [loader EXCEPT !.pc = "l96"]
    /\ UNCHANGED <<main, predictor, scaler, label_enc, readings, clock, req,
                   started, latest, stats>>

\* line 96: predictor = joblib.load(fire_risk_model.pkl)
load_model_96 ==
    /\ loader.pc = "l96"
    /\ \/ /\ loader' = [loader EXCEPT !.pc = "raised", !.exc = "FileNotFoundError"]
          /\ UNCHANGED predictor
       \/ \E k \in PredictorKinds :
            /\ predictor' = [kind |-> k, load |-> loader.load]
            /\ loader' = [loader EXCEPT !.pc = "l97"]
    /\ UNCHANGED <<main, scaler, label_enc, model_meta, readings, clock, req,
                   started, latest, stats>>

\* line 97: scaler = joblib.load(scaler.pkl)
load_model_97 ==
    /\ loader.pc = "l97"
    /\ \/ /\ loader' = [loader EXCEPT !.pc = "raised", !.exc = "FileNotFoundError"]
          /\ UNCHANGED scaler
       \/ \E k \in ScalerKinds :
            /\ scaler' = [kind |-> k, load |-> loader.load]
            /\ loader' = [loader EXCEPT !.pc = "l98"]
    /\ UNCHANGED <<main, predictor, label_enc, model_meta, readings, clock, req,
                   started, latest, stats>>

\* line 98: label_enc = joblib.load(label_encoder.pkl)
load_model_98 ==
    /\ loader.pc = "l98"
    /\ \/ /\ loader' = [loader EXCEPT !.pc = "raised", !.exc = "FileNotFoundError"]
          /\ UNCHANGED label_enc
       \/ \E cl \in ClassLists :
            /\ label_enc' = [kind |-> "ok", classes |-> cl, load |-> loader.load]
            /\ loader' = [loader EXCEPT !.pc = "l99"]
    /\ UNCHANGED <<main, predictor, scaler, model_meta, readings, clock, req,
                   started, latest, stats>>

\* line 99: log.info(... model_meta['model_name'] ...); a metadata record
\* without the key raises KeyError
load_model_99 ==
    /\ loader.pc = "l99"
    /\ loader' = IF model_meta.named
                 THEN [loader EXCEPT !.pc = "returned"]
                 ELSE [loader EXCEPT !.pc = "raised", !.exc = "KeyError"]
    /\ UNCHANGED <<main, predictor, scaler, label_enc, model_meta, readings, clock,
                   req, started, latest, stats>>

\* lines 234-235: load_model() returned -> app.run() serves; an exception
\* escapes __main__ and the process ends before serving
main_run ==
    /\ main.pc = "loading"
    /\ loader.pc \in {"returned", "raised"}
    /\ main' = [main EXCEPT !.pc = IF loader.pc = "returned" THEN "run" ELSE "crashed"]
    /\ UNCHANGED <<loader, predictor, scaler, label_enc, model_meta, readings, clock,
                   req, started, latest, stats>>

Init ==
    /\ main = [pc |-> "init_db"]
    /\ loader = [pc |-> "idle", load |-> 0, exc |-> ""]
    /\ predictor = None
    /\ scaler = None
    /\ label_enc = None
    /\ model_meta = EmptyMeta
    /\ readings = <<>>
    /\ clock = Day
    /\ req = [w \in Workers |-> IdleReq]
    /\ started = [all |-> 0, valid |-> 0]
    /\ latest = NoLatest
    /\ stats = NoStats

\* the request-handling steps of the ingestion route, for the workers `ws`
\* and the payloads `payloads`; without and with the steps of the model path
Ingest(ws, payloads) ==
    \/ \E w \in ws, data \in payloads : receive_sensor_data_133(w, data)
    \/ \E w \in ws : ml_predict_115(w)
    \/ \E w \in ws : receive_sensor_data_145(w)
    \/ \E w \in ws : receive_sensor_data_147(w)
    \/ \E w \in ws : receive_sensor_data_155(w)

ModelPath(ws) ==
    \/ \E w \in ws : ml_predict_118(w)
    \/ \E w \in ws : ml_predict_119(w)
    \/ \E w \in ws : ml_predict_121(w)

\* lines 232-235: init_db(), load_model(), app.run()
Startup ==
    \/ init_db
    \/ main_load_model
    \/ load_model_91
    \/ load_model_94
    \/ load_model_96
    \/ load_model_97
    \/ load_model_98
    \/ load_model_99
    \/ main_run

Next ==
    \/ Startup
    \/ Ingest(Workers, Payloads)
    \/ ModelPath(Workers)

Spec == Init /\ [][Next]_vars

\* Serving without a model: the state app.run() starts from when
\* models/model_meta.json is absent (load_model returned at line 93).
InitServing ==
    /\ main = [pc |-> "run"]
    /\ loader = [pc |-> "returned", load |-> 1, exc |-> ""]
    /\ predictor = None
    /\ scaler = None
    /\ label_enc = None
    /\ model_meta = EmptyMeta
    /\ readings = <<>>
    /\ clock = Day
    /\ req = [w \in Workers |-> IdleReq]
    /\ started = [all |-> 0, valid |-> 0]
    /\ latest = NoLatest
    /\ stats = NoStats

\* /api/predict bodies: measurements on both sides of every threshold, and
\* the empty body (all defaults)
PredictPayloads ==
    { [temperature |-> t, smoke |-> s, gas |-> g] :
        t \in {"44", "45", "59", "60"}, s \in {"299", "300", "499", "500"},
        g \in {"399", "400", "699", "700"} }
    \cup { EmptyBody, [temperature |-> "abc"] }

NextRule ==
    \/ \E w \in Workers, data \in PredictPayloads : manual_predict_221(w, data)
    \/ \E w \in Workers : ml_predict_115(w)
    \/ \E w \in Workers : manual_predict_226(w)

SpecRule == InitServing /\ [][NextRule]_vars

\* the worker of the runs that exercise the queries
QueryWorkers == {1}

\* readings of three devices, one of them with the empty id
LatestPayloads == { [BasePayload EXCEPT !.device_id = d] : d \in {"", "A", "B"} }
LatestArgs ==
    { [device_id |-> d, limit |-> l] : d \in {"", "A", "B"}, l \in {"-1", "0", "1", "2"} }
    \cup { [device_id |-> d] : d \in {"", "A", "B"} }
    \cup { [limit |-> l] : l \in {"-1", "0", "1", "2", "abc"} }
    \cup { EmptyBody }

NextLatest ==
    \/ Ingest(QueryWorkers, LatestPayloads)
    \/ \E args \in LatestArgs : get_latest(args)

SpecLatest == InitServing /\ [][NextLatest]_vars

NextStats ==
    \/ Ingest(QueryWorkers, ValidPayloads)
    \/ get_stats_182
    \/ get_stats_183
    \/ get_stats_184
    \/ get_stats_185
    \/ get_stats_187

SpecStats == InitServing /\ [][NextStats]_vars

\* one worker ingesting while load_model is called again
NextReload ==
    \/ Startup
    \/ Ingest(QueryWorkers, {BasePayload})
    \/ ModelPath(QueryWorkers)
    \/ reload_model

SpecReload == Init /\ [][NextReload]_vars

\* ----------------------------------------------------------------- claims
Quiescent == \A w \in Workers : req[w].pc \in {"idle", "done"}
Ingested(w) == req[w].pc = "done" /\ req[w].route = "sensor-data"
RiskPairs == { <<"LOW", 0>>, <<"MEDIUM", 1>>, <<"HIGH", 2>> }

\* C2: every stored reading carries one of the pairs (LOW,0), (MEDIUM,1),
\* (HIGH,2), whichever classifier produced it.
C2_StoredRiskPairs ==
    \A i \in 1..Len(readings) :
        <<readings[i].risk_level, readings[i].risk_code>> \in RiskPairs

\* C3: an ingestion of a valid payload ends with the success response and a
\* stored reading, also when the loaded model fails during the call.
C3_ModelFailureFallsBack ==
    \A w \in Workers :
        (Ingested(w) /\ ValidPayload(req[w].data)) =>
            /\ req[w].status = 200
            /\ req[w].rowid \in 1..Len(readings)

NotLoaded == predictor = None /\ scaler = None /\ label_enc = None
             /\ model_meta = EmptyMeta
FullyLoaded == predictor # None /\ scaler # None /\ label_enc # None
               /\ model_meta # EmptyMeta

\* C5: load_model never raises, whatever artifacts are missing or malformed,
\* and it ends either with the whole model bound or with nothing bound
\* (predictor, scaler, label encoder unset and empty metadata).
C5_LoadFailureLeavesNotLoaded ==
    /\ main.pc # "crashed"
    /\ loader.pc # "raised"
    /\ loader.pc = "returned" => (NotLoaded \/ FullyLoaded)

\* C6: once every ingestion request has ended, the table holds one reading per
\* request that had a valid payload, and no two readings share an id.
C6_NoReadingLost ==
    Quiescent =>
        /\ Len(readings) = started.valid
        /\ \A i, j \in 1..Len(readings) : readings[i].id = readings[j].id => i = j

\* a field of the payload that is missing or, for a measurement, not numeric
Offending(data) ==
    { f \in Fields : f \notin DOMAIN data \/ (f # "device_id" /\ ~IsNumeric(data[f])) }

\* C8: an ingestion whose payload misses a required field or has a non-numeric
\* measurement ends with a client error naming an offending field, and stores
\* nothing.
C8_InvalidPayloadRejected ==
    \A w \in Workers :
        (Ingested(w) /\ req[w].data # EmptyBody /\ ~ValidPayload(req[w].data)) =>
            /\ req[w].status = 400
            /\ req[w].body \in Offending(req[w].data)
            /\ req[w].rowid = 0

\* C10: stored timestamps are non-decreasing in id order.
C10_TimestampsFollowIds ==
    \A i, j \in 1..Len(readings) :
        readings[i].id < readings[j].id =>
            TextLeq(readings[i].timestamp, readings[j].timestamp)
\* the claim's severity score: one point per threshold reached
ClaimScore(t, s, g) ==
    Cardinality({ th \in {45, 60} : t >= th })
    + Cardinality({ th \in {300, 500} : s >= th })
    + Cardinality({ th \in {400, 700} : g >= th })
ClaimLevel(score) ==
    CASE score \in {0, 1} -> <<"LOW", 0>>
      [] score \in {2, 3} -> <<"MEDIUM", 1>>
      [] score \in {4, 5, 6} -> <<"HIGH", 2>>

Predicted(w) == req[w].pc = "done" /\ req[w].route = "predict" /\ req[w].status = 200

\* C1: without a model, the classification of (temperature, smoke, gas) is the
\* label and code of the severity score (one point per threshold reached:
\* 45/60, 300/500, 400/700; <=1 LOW, 2-3 MEDIUM, >=4 HIGH), and no
\* probabilities are produced.
C1_RulePredictByScore ==
    \A w \in Workers :
        Predicted(w) =>
            /\ <<req[w].label, req[w].code>>
                 = ClaimLevel(ClaimScore(req[w].temp, req[w].smoke, req[w].gas))
            /\ req[w].proba = "None"
            /\ req[w].body = ""

\* a prediction exactly on the upper temperature and lower smoke thresholds
C1_Witness ==
    \E w \in Workers :
        /\ Predicted(w)
        /\ req[w].temp = 60 /\ req[w].smoke = 300 /\ req[w].gas = 399
        /\ req[w].label = "MEDIUM"

\* C4: whatever a classify call has read of predictor, scaler, label encoder
\* and metadata so far was bound by one and the same load (or by none).
C4_ReadersSeeOneLoad ==
    \A w \in Workers : Cardinality(req[w].loadsRead) <= 1

LimitOf(args) == IF "limit" \in DOMAIN args THEN py_int(args.limit) ELSE 50

\* C7: a latest-readings answer holds at most `limit` readings (none for a
\* negative limit), in strictly descending id order, all of the device asked
\* for when a device_id is given.
C7_LatestBounded ==
    (latest.called /\ latest.status = 200) =>
        /\ Len(latest.rows) <= (IF LimitOf(latest.args) < 0 THEN 0 ELSE LimitOf(latest.args))
        /\ \A i \in 1..(Len(latest.rows) - 1) : latest.rows[i].id > latest.rows[i + 1].id
        /\ "device_id" \in DOMAIN latest.args =>
             \A i \in 1..Len(latest.rows) : latest.rows[i].device_id = latest.args.device_id

\* two get_stats calls have ended, one after the other, and nothing was
\* appended or loaded since the first of them began
Consecutive ==
    /\ stats.pc = "done"
    /\ stats.prev # NoSnap
    /\ stats.prevMark = WriteCount

\* C9 as stated: two consecutive get_stats calls with no append and no model
\* load between them return identical snapshots, however much time passes.
C9_StatsIdempotent ==
    Consecutive => stats.resp = stats.prev

\* the reading is inside the window of one of the two calls and outside the
\* window of the other
BetweenCutoffs(r) ==
    TextLeq(stats.prevCutoff, r.timestamp) # TextLeq(stats.cutoff, r.timestamp)

\* C9 amended: two such calls return the same total_readings,
\* risk_distribution and model however much time passes, and the same last_24h
\* fields whenever no stored reading's timestamp lies between their cutoffs.
C9_StatsStable ==
    Consecutive =>
        /\ stats.resp.total_readings = stats.prev.total_readings
        /\ stats.resp.risk_distribution = stats.prev.risk_distribution
        /\ stats.resp.model = stats.prev.model
        /\ (\A i \in 1..Len(readings) : ~BetweenCutoffs(readings[i])) =>
             stats.resp.last_24h = stats.prev.last_24h

\* two consecutive calls over a non-empty table whose windows differ
C9_Witness ==
    /\ Consecutive
    /\ stats.resp.total_readings > 0
    /\ stats.resp.last_24h # stats.prev.last_24h
====
